---- MODULE Spec2Model ----
(***************************************************************************)
(* A state-machine model of the "gift" single-page experience:             *)
(*   - the flow controller (app.js, in two revisions: the one kept in      *)
(*     src/unnamed/part_000, whose screens are progress, error, suitcase   *)
(*     and model, and the one kept at the end of src/js/video.js, which    *)
(*     has a video screen as well),                                        *)
(*   - the suitcase story sequencer (src/js/suitcase.js),                  *)
(*   - the progress sequencer (src/js/progress.js).                        *)
(* The browser is the environment: it delivers click events to the         *)
(* registered listeners, fires timers and animation frames, and runs each  *)
(* callback to completion before the next one starts.                      *)
(***************************************************************************)
EXTENDS Integers, Sequences, FiniteSets, TLC

(***************************************************************************)
(* Bounds of the model.                                                    *)
(***************************************************************************)
\* How many times initSuitcase may be called in one page session.
MaxInits == 2

\* How many steps a step list other than STEPS has at most.
MaxSteps == 2

\* How many times initModelViewer may be called in one page session.
MaxViewerInits == 2

\* How many times initVideo may be called in one page session.
MaxVideoInits == 2

\* How many calls of enterFullscreenAndPlay one page session may see.
MaxFsCalls == 3

(***************************************************************************)
(* JavaScript numbers, as far as the story needs them: an integer or NaN.  *)
(***************************************************************************)
Num(n) == [nan |-> FALSE, v |-> n]

NaN == [nan |-> TRUE, v |-> 0]

\* a === b, a < b, a >= b on numbers: every comparison with NaN is false.
JsEq(a, b) == ~a.nan /\ ~b.nan /\ a.v = b.v

JsLt(a, b) == ~a.nan /\ ~b.nan /\ a.v < b.v

JsGe(a, b) == ~a.nan /\ ~b.nan /\ a.v >= b.v

\* Math.max and Math.min: NaN if either argument is NaN.
MathMax(a, b) == IF a.nan \/ b.nan THEN NaN ELSE IF a.v >= b.v THEN a ELSE b

MathMin(a, b) == IF a.nan \/ b.nan THEN NaN ELSE IF a.v <= b.v THEN a ELSE b

\* x++ on a number.
Incr(a) == IF a.nan THEN NaN ELSE Num(a.v + 1)

(***************************************************************************)
(* Query parameters.  A parameter that is absent reads as null.  The step  *)
(* parameter is a string, modelled as a sequence of characters so that     *)
(* parseInt can be computed on it.                                         *)
(***************************************************************************)
NullScreen == "<null>"

NullStep == <<"<null>">>

Digits == {"0", "1", "2", "3", "4", "5", "6", "7", "8", "9"}

DigitVal == [c \in Digits |->
               CASE c = "0" -> 0 [] c = "1" -> 1 [] c = "2" -> 2 [] c = "3" -> 3
                 [] c = "4" -> 4 [] c = "5" -> 5 [] c = "6" -> 6 [] c = "7" -> 7
                 [] c = "8" -> 8 [] c = "9" -> 9]

RECURSIVE SkipSpace(_)
SkipSpace(s) == IF s # <<>> /\ Head(s) = " " THEN SkipSpace(Tail(s)) ELSE s

\* The value of the longest digit prefix of s, given the value acc of the
\* digits read so far.
RECURSIVE ReadDigits(_, _)
ReadDigits(s, acc) ==
  IF s # <<>> /\ Head(s) \in Digits
    THEN ReadDigits(Tail(s), 10 * acc + DigitVal[Head(s)])
    ELSE acc

\* parseInt(s, 10): leading white space is skipped, one sign is accepted, the
\* longest prefix of decimal digits is read and what follows it is ignored;
\* the result is NaN when there is no digit to read.
ParseInt(s) ==
  LET t == SkipSpace(s)
      neg == t # <<>> /\ Head(t) = "-"
      u == IF t # <<>> /\ Head(t) \in {"-", "+"} THEN Tail(t) ELSE t
  IN IF u = <<>> \/ Head(u) \notin Digits
       THEN NaN
       ELSE Num((IF neg THEN -1 ELSE 1) * ReadDigits(u, 0))

\* The values the model gives the screen parameter: absent, every screen
\* name of either controller, a name no object has, and "toString",
\* which every object inherits from Object.prototype.
ScreenParams ==
  {NullScreen, "progress", "error", "suitcase", "video", "model", "bogus",
   "toString"}

\* The values the model gives the step parameter: absent, each step index,
\* a negative number, numbers past the last step, text, the empty string, a
\* number followed by text and a number after white space.
StepParams ==
  {NullStep, <<"0">>, <<"1">>, <<"2">>, <<"3">>, <<"-", "1">>, <<"4">>,
   <<"1", "2">>, <<"a", "b", "c">>, <<>>, <<"2", "p", "x">>, <<" ", "1">>}

(***************************************************************************)
(* Program constants.                                                      *)
(***************************************************************************)
\* steps.length: the number of .suitcase-step slides of the page (steps 0-3).
totalSteps == 4

\* The index of the step that holds the map (showStep: index === 2).
MapStepIndex == 2

Steps == 0 .. (totalSteps - 1)

LastStep == Num(totalSteps - 1)

VARIABLES
  controller,     \* which revision of the flow controller runs: "app" or "video"
  skipTo,         \* params.get('screen')
  suitcaseStep,   \* params.get('step')
  loaded,         \* init() has run
  active,         \* the keys of `screens` whose element carries 'active'
  errorClasses,   \* 'flash' and 'shake' on the error screen
  errorTimers,    \* the pending timers of startFlow: "t600", "t500"
  flow,           \* where startFlow is: "idle", "awaiting", "done"
  progPc,         \* the await runProgress is suspended at
  progI,          \* runProgress's loop variable i
  items,          \* the progress items appended to #progress-list
  anim,           \* the running animateFill call
  stepList,       \* the STEPS array runProgress iterates over
  closures,       \* one record per initSuitcase call: currentStep, transitioning
  storyTimers,    \* pending 580 ms timers, in the order they were set
  stepClasses,    \* per slide: which of 'active', 'exited' it carries
  dotActive,      \* per position dot: whether it carries 'active'
  tapHint,        \* tapHint.style.display
  mapInitialised, \* the module flag of suitcase.js
  mapInitRuns,    \* how many times the body of initMap ran past its guard
  mapStepEntries, \* how many times showStep ran with index === 2
  mapFrames,      \* pending requestAnimationFrame callbacks of initMap
  map,            \* the Leaflet map: "null" or "map"
  dispatch,       \* listeners of the click being delivered that have yet to run
  videoInited,    \* initVideo has been called
  modelInited,    \* initModelViewer has been called
  userActed,      \* some click has been delivered since the page loaded
  loads,          \* one record per initModelViewer call: where findAndLoad is
  sceneObjects,   \* the model and placeholder objects of the current `scene`
  running,        \* the render loops with a pending animation-frame request
  animationId,    \* 0 while undefined, else the loop whose request it holds
  videoEnv,       \* what the page offers: a video source, the fullscreen APIs
  videoDom,       \* inline styles and classes initVideo's code writes
  fsCalls         \* one record per enterFullscreenAndPlay call

paramVars == <<controller, skipTo, suitcaseStep, stepList>>

flowVars == <<loaded, active, errorClasses, errorTimers, flow>>

progVars == <<progPc, progI, items, anim>>

domVars == <<stepClasses, dotActive, tapHint>>

mapVars == <<mapInitialised, mapInitRuns, mapStepEntries, mapFrames, map>>

storyVars == <<closures, storyTimers, domVars, mapVars>>

initVars == <<videoInited, modelInited>>

viewerVars == <<loads, sceneObjects, running, animationId>>

videoVars == <<videoEnv, videoDom, fsCalls>>

compVars == <<viewerVars, videoVars>>

vars ==
  <<paramVars, flowVars, progVars, storyVars, dispatch, initVars, userActed,
    compVars>>

(***************************************************************************)
(* The flow controller: screens and showScreen.                            *)
(***************************************************************************)
\* The keys of the `screens` object, in part_000 and in the revision with a
\* video screen.
ScreensApp == {"progress", "error", "suitcase", "model"}

ScreensVideo == {"progress", "error", "suitcase", "video", "model"}

\* The keys of the `screens` object of the running controller.
Screens == IF controller = "video" THEN ScreensVideo ELSE ScreensApp

\* Property names every object inherits (Object.prototype): screens[name] is
\* a function, hence truthy, for these too.
InheritedNames == {"toString"}

\* skipTo && screens[skipTo]
SkipToTruthy ==
  /\ skipTo # NullScreen
  /\ skipTo # ""
  /\ skipTo \in Screens \cup InheritedNames

\* A showScreen that adds 'active' to the target and removes it nowhere.
ShowScreenKeepsOthers(cur, name) == cur \cup {k \in Screens : k = name}

\* showScreen(name), from the set cur of keys whose element carries 'active':
\* the set afterwards.  Every key of `screens` is visited; the one equal to
\* name gets 'active', every other one loses it.
ShowScreen(cur, name) ==
  (cur \ {k \in Screens : k # name}) \cup {k \in Screens : k = name}

(***************************************************************************)
(* The progress sequencer (progress.js).                                   *)
(***************************************************************************)
\* A step's failAt property: <<>> when the step has none, <<p>> when it is p.
NoFailAt == <<>>

\* STEPS: duration and failAt of each step.
STEPS ==
  << [duration |-> 2200, failAt |-> NoFailAt],
     [duration |-> 2800, failAt |-> NoFailAt],
     [duration |-> 2000, failAt |-> NoFailAt],
     [duration |-> 1800, failAt |-> NoFailAt],
     [duration |-> 3000, failAt |-> <<87>>] >>

\* if (step.failAt): an absent failAt and a failAt of 0 are both falsy.
HasFailAt(step) == step.failAt # NoFailAt /\ step.failAt[1] # 0

\* createProgressItem: a new item; its fill has no width yet (width8 is the
\* fill's width in eighths of a percent), its status is empty.  reached
\* records the width the fill had each time an animateFill of the item
\* resolved.
NewItem ==
  [visible |-> FALSE, width8 |-> 0, status |-> <<>>, classes |-> {},
   errorStyle |-> FALSE, reached |-> <<>>]

NoAnim == [on |-> FALSE]

\* The time of an animation frame as a fraction of the duration, in quarters
\* (4 stands for every elapsed time >= duration), and the eased value of
\* each, in eighths: 2p^2 below one half, 1 - (-2p + 2)^2 / 2 from there on.
Quarters == 0 .. 4

Eased8 == [q \in Quarters |->
             CASE q = 0 -> 0 [] q = 1 -> 1 [] q = 2 -> 4 [] q = 3 -> 7
               [] q = 4 -> 8]

\* An animateFill that never asks for its first animation frame.
AnimateFillNoFrame(item, target, duration) ==
  [on |-> FALSE, start8 |-> item.width8, delta8 |-> 8 * target - item.width8,
   duration |-> duration, q |-> 0]

\* animateFill(fill, target, duration) up to its first requestAnimationFrame:
\* the record of the call.  startWidth is read from the fill.
AnimateFill(item, target, duration) ==
  [on |-> TRUE, start8 |-> item.width8, delta8 |-> 8 * target - item.width8,
   duration |-> duration, q |-> 0]

\* A frame that resolves the promise without writing the last width: at the
\* end of the duration the width of the frame before is written again.
FrameWidth8NoLastWrite(a, q) ==
  a.start8 + (a.delta8 * Eased8[IF q = 4 THEN 3 ELSE q]) \div 8

\* The width frame(now) writes, for now - start = q quarters of the duration.
FrameWidth8(a, q) == a.start8 + (a.delta8 * Eased8[q]) \div 8

\* fill.style.width = w + '%': a negative width is no valid value of the
\* property, and the style keeps the value it had.
SetWidth(item, w8) == IF w8 < 0 THEN item ELSE [item EXCEPT !.width8 = w8]

\* runProgress up to its first await: the list is emptied, the first item is
\* appended and sleep(300) is pending; with no step at all, the loop is
\* skipped and the last sleep(600) is pending.
RunProgressStart ==
  /\ progPc' = IF stepList = <<>> THEN "sleepEnd" ELSE "sleep300"
  /\ progI' = 1
  /\ items' = IF stepList = <<>> THEN <<>> ELSE <<NewItem>>
  /\ anim' = NoAnim

Step == stepList[progI]

\* step.failAt of a step that has one.
FailAt == Step.failAt[1]

\* The target of the second fill of a failing step: step.failAt + 1.
StutterTarget == FailAt + 1

\* A third fill that drops by one only.
DropTargetOneBelow == FailAt - 1

\* The target of the third fill of a failing step: step.failAt - 2.
DropTarget == FailAt - 2

Item == items[progI]

SetItem(it) == [items EXCEPT ![progI] = it]

(***************************************************************************)
(* The story sequencer (suitcase.js).                                      *)
(***************************************************************************)
\* An initMap without its `if (mapInitialised) return`.
InitMapNoGuard ==
  /\ mapInitialised' = TRUE
  /\ mapInitRuns' = mapInitRuns + 1
  /\ mapFrames' = mapFrames + 1
  /\ UNCHANGED map

\* initMap(): returns at once when the flag is set; otherwise sets it and
\* asks for an animation frame in which the map is built.
InitMap ==
  IF mapInitialised
    THEN UNCHANGED <<mapInitialised, mapInitRuns, mapFrames, map>>
    ELSE /\ mapInitialised' = TRUE
         /\ mapInitRuns' = mapInitRuns + 1
         /\ mapFrames' = mapFrames + 1
         /\ UNCHANGED map

\* The classes of slide i after showStep(index) has visited it.
StepClassAfter(old, i, index) ==
  IF JsEq(Num(i), index)
    THEN (old \ {"exited"}) \cup {"active"}
    ELSE IF JsLt(Num(i), index)
           THEN (old \ {"active"}) \cup {"exited"}
           ELSE old \ {"active", "exited"}

\* tapHint.style.display after showStep(index).
TapHintAfter(index) == IF JsGe(index, LastStep) THEN "none" ELSE ""

\* showStep(index, animate) of closure c; cls is the closures as the caller
\* left them (the click listener has incremented currentStep before).
ShowStep(cls, c, index, animate) ==
  IF animate /\ cls[c].transitioning
    THEN /\ closures' = cls
         /\ UNCHANGED <<storyTimers, domVars, mapVars>>
    ELSE /\ closures' = IF animate
                          THEN [cls EXCEPT ![c].transitioning = TRUE]
                          ELSE cls
         /\ stepClasses' = [i \in Steps |-> StepClassAfter(stepClasses[i], i, index)]
         /\ dotActive' = [i \in Steps |-> JsEq(Num(i), index)]
         /\ tapHint' = TapHintAfter(index)
         /\ IF JsEq(index, Num(MapStepIndex))
              THEN InitMap /\ mapStepEntries' = mapStepEntries + 1
              ELSE UNCHANGED mapVars
         /\ storyTimers' = IF animate THEN Append(storyTimers, c) ELSE storyTimers

\* Math.min(Math.max(startAt, 0), totalSteps - 1)
ClampStep(startAt) == MathMin(MathMax(startAt, Num(0)), LastStep)

\* An initSuitcase that shows its start step with the default animate = true.
InitSuitcaseAnimated(startAt) ==
  LET cur == ClampStep(startAt)
      cls == Append(closures, [currentStep |-> cur, transitioning |-> FALSE])
  IN ShowStep(cls, Len(cls), cur, TRUE)

\* initSuitcase(startAt): a new closure with its own currentStep and
\* transitioning, the start step shown without animation, and one more click
\* listener on the suitcase screen.
InitSuitcase(startAt) ==
  LET cur == ClampStep(startAt)
      cls == Append(closures, [currentStep |-> cur, transitioning |-> FALSE])
  IN ShowStep(cls, Len(cls), cur, FALSE)

\* A click listener whose end test is `currentStep > totalSteps - 1`.
ClickListenerOffByOne(c) ==
  IF JsGe(closures[c].currentStep, Num(totalSteps))
    THEN UNCHANGED storyVars
    ELSE LET next == Incr(closures[c].currentStep)
             cls == [closures EXCEPT ![c].currentStep = next]
         IN ShowStep(cls, c, next, TRUE)

\* The click listener initSuitcase registered for closure c.
ClickListener(c) ==
  IF JsGe(closures[c].currentStep, LastStep)
    THEN UNCHANGED storyVars
    ELSE LET next == Incr(closures[c].currentStep)
             cls == [closures EXCEPT ![c].currentStep = next]
         IN ShowStep(cls, c, next, TRUE)

(***************************************************************************)
(* The flow controller: startFlow, jumpTo, init.                           *)
(***************************************************************************)
\* A startFlow that does not await runProgress: the error screen is shown
\* while the progress bars still run.
StartFlowNoAwait(cur) ==
  /\ active' = ShowScreen(ShowScreen(cur, "progress"), "error")
  /\ flow' = "awaiting"
  /\ RunProgressStart
  /\ errorClasses' = errorClasses \cup {"flash"}
  /\ errorTimers' = errorTimers \cup {"t600"}

\* startFlow() up to its await: the progress screen is shown and runProgress
\* is started.  cur is the set of active screens when it is called.
StartFlow(cur) ==
  /\ active' = ShowScreen(cur, "progress")
  /\ flow' = "awaiting"
  /\ RunProgressStart
  /\ UNCHANGED <<errorClasses, errorTimers>>

\* startFlow() after `await runProgress()`: the error screen with its flash,
\* and the 600 ms timer that turns the flash into a shake.
StartFlowResume ==
  /\ active' = ShowScreen(active, "error")
  /\ errorClasses' = errorClasses \cup {"flash"}
  /\ errorTimers' = errorTimers \cup {"t600"}
  /\ flow' = "done"

\* A jumpTo that always starts the story at its first step.
StartStepIgnoresParam == Num(0)

\* The argument jumpTo gives initSuitcase.
StartStep == IF suitcaseStep # NullStep THEN ParseInt(suitcaseStep) ELSE Num(0)

\* A jumpTo whose 'model' case lacks its break and falls through to the
\* default case.
JumpToAppFallsThrough(name) ==
  CASE name = "error" ->
         /\ active' = ShowScreen(active, name)
         /\ UNCHANGED <<errorClasses, errorTimers, flow, progVars, storyVars, initVars>>
    [] name = "suitcase" ->
         /\ active' = ShowScreen(active, name)
         /\ InitSuitcase(StartStep)
         /\ UNCHANGED <<errorClasses, errorTimers, flow, progVars, initVars>>
    [] name = "model" ->
         /\ modelInited' = TRUE
         /\ StartFlow(ShowScreen(active, name))
         /\ UNCHANGED <<storyVars, videoInited>>
    [] OTHER ->
         /\ StartFlow(ShowScreen(active, name))
         /\ UNCHANGED <<storyVars, initVars>>

\* jumpTo(name) of part_000.
JumpToApp(name) ==
  CASE name = "error" ->
         /\ active' = ShowScreen(active, name)
         /\ UNCHANGED <<errorClasses, errorTimers, flow, progVars, storyVars, initVars>>
    [] name = "suitcase" ->
         /\ active' = ShowScreen(active, name)
         /\ InitSuitcase(StartStep)
         /\ UNCHANGED <<errorClasses, errorTimers, flow, progVars, initVars>>
    [] name = "model" ->
         /\ active' = ShowScreen(active, name)
         /\ modelInited' = TRUE
         /\ UNCHANGED <<errorClasses, errorTimers, flow, progVars, storyVars, videoInited>>
    [] OTHER ->
         /\ StartFlow(ShowScreen(active, name))
         /\ UNCHANGED <<storyVars, initVars>>

\* jumpTo(name) of the revision with a video screen.
JumpToVideo(name) ==
  CASE name = "error" ->
         /\ active' = ShowScreen(active, name)
         /\ UNCHANGED <<errorClasses, errorTimers, flow, progVars, storyVars, initVars>>
    [] name = "suitcase" ->
         /\ active' = ShowScreen(active, name)
         /\ InitSuitcase(StartStep)
         /\ UNCHANGED <<errorClasses, errorTimers, flow, progVars, initVars>>
    [] name = "video" ->
         /\ active' = ShowScreen(active, name)
         /\ videoInited' = TRUE
         /\ UNCHANGED <<errorClasses, errorTimers, flow, progVars, storyVars, modelInited>>
    [] name = "model" ->
         /\ active' = ShowScreen(active, name)
         /\ modelInited' = TRUE
         /\ UNCHANGED <<errorClasses, errorTimers, flow, progVars, storyVars, videoInited>>
    [] OTHER ->
         /\ StartFlow(ShowScreen(active, name))
         /\ UNCHANGED <<storyVars, initVars>>

\* jumpTo(name) of the running controller.
JumpTo(name) == IF controller = "video" THEN JumpToVideo(name) ELSE JumpToApp(name)

\* init(): the buttons are wired, then the page either jumps to the screen
\* the query names or runs the full flow.
Load ==
  /\ ~loaded
  /\ loaded' = TRUE
  /\ IF SkipToTruthy
       THEN JumpTo(skipTo)
       ELSE StartFlow(active) /\ UNCHANGED <<storyVars, initVars>>
  /\ UNCHANGED <<paramVars, compVars, dispatch, userActed>>

\* No callback is running: the browser may start the next one.
Idle == loaded /\ dispatch = <<>>

\* A click on #btn-next-steps.
ClickNextSteps ==
  /\ Idle
  /\ Len(closures) < MaxInits
  /\ active' = ShowScreen(active, "suitcase")
  /\ InitSuitcase(Num(0))
  /\ userActed' = TRUE
  /\ UNCHANGED <<paramVars, compVars, loaded, errorClasses, errorTimers, flow, progVars,
                 dispatch, initVars>>

\* A click on #btn-show-gift (part_000): straight to the model.  The listener
\* stops the propagation of the click, so the listeners of the suitcase
\* screen do not run.
ClickShowGift ==
  /\ Idle
  /\ controller = "app"
  /\ active' = ShowScreen(active, "model")
  /\ modelInited' = TRUE
  /\ userActed' = TRUE
  /\ UNCHANGED <<paramVars, compVars, loaded, errorClasses, errorTimers, flow, progVars,
                 storyVars, dispatch, videoInited>>

\* A click on #btn-show-video (the controller with a video screen); the
\* propagation of the click is stopped here too.
ClickShowVideo ==
  /\ Idle
  /\ controller = "video"
  /\ active' = ShowScreen(active, "video")
  /\ videoInited' = TRUE
  /\ userActed' = TRUE
  /\ UNCHANGED <<paramVars, compVars, loaded, errorClasses, errorTimers, flow, progVars,
                 storyVars, dispatch, modelInited>>

\* A click on #btn-video-continue (the controller with a video screen).
ClickVideoContinue ==
  /\ Idle
  /\ controller = "video"
  /\ active' = ShowScreen(active, "model")
  /\ modelInited' = TRUE
  /\ userActed' = TRUE
  /\ UNCHANGED <<paramVars, compVars, loaded, errorClasses, errorTimers, flow, progVars,
                 storyVars, dispatch, videoInited>>

\* A 600 ms timer that adds 'shake' and leaves 'flash' in place.
FlashTimerKeepsFlash ==
  /\ Idle
  /\ "t600" \in errorTimers
  /\ errorClasses' = errorClasses \cup {"shake"}
  /\ errorTimers' = (errorTimers \ {"t600"}) \cup {"t500"}
  /\ UNCHANGED <<paramVars, compVars, loaded, active, flow, progVars, storyVars, dispatch,
                 initVars, userActed>>

\* The 600 ms timer of startFlow.
FlashTimer ==
  /\ Idle
  /\ "t600" \in errorTimers
  /\ errorClasses' = (errorClasses \ {"flash"}) \cup {"shake"}
  /\ errorTimers' = (errorTimers \ {"t600"}) \cup {"t500"}
  /\ UNCHANGED <<paramVars, compVars, loaded, active, flow, progVars, storyVars, dispatch,
                 initVars, userActed>>

\* A 500 ms timer that moves on to the suitcase screen by itself.
ShakeTimerMovesOn ==
  /\ Idle
  /\ "t500" \in errorTimers
  /\ errorClasses' = errorClasses \ {"shake"}
  /\ errorTimers' = errorTimers \ {"t500"}
  /\ active' = ShowScreen(active, "suitcase")
  /\ UNCHANGED <<paramVars, compVars, loaded, flow, progVars, storyVars, dispatch,
                 initVars, userActed>>

\* The 500 ms timer set by the 600 ms one.
ShakeTimer ==
  /\ Idle
  /\ "t500" \in errorTimers
  /\ errorClasses' = errorClasses \ {"shake"}
  /\ errorTimers' = errorTimers \ {"t500"}
  /\ UNCHANGED <<paramVars, compVars, loaded, active, flow, progVars, storyVars, dispatch,
                 initVars, userActed>>

(***************************************************************************)
(* The story: clicks on the suitcase screen, the 580 ms timer, the map.    *)
(***************************************************************************)
\* A click on the suitcase screen outside the forward button (a click on the
\* button never reaches these listeners: the button's own listener stops
\* its propagation).  Every registered listener will run, in the order of
\* registration.
Tap ==
  /\ Idle
  /\ closures # <<>>
  /\ dispatch' = [k \in 1 .. Len(closures) |-> k]
  /\ userActed' = TRUE
  /\ UNCHANGED <<paramVars, compVars, flowVars, progVars, storyVars, initVars>>

\* The next listener of the click being delivered runs.
RunListener ==
  /\ dispatch # <<>>
  /\ ClickListener(Head(dispatch))
  /\ dispatch' = Tail(dispatch)
  /\ UNCHANGED <<paramVars, compVars, flowVars, progVars, initVars, userActed>>

\* The oldest pending 580 ms timer fires: () => { transitioning = false; }
StoryTimer ==
  /\ Idle
  /\ storyTimers # <<>>
  /\ closures' = [closures EXCEPT ![Head(storyTimers)].transitioning = FALSE]
  /\ storyTimers' = Tail(storyTimers)
  /\ UNCHANGED <<paramVars, compVars, flowVars, progVars, domVars, mapVars, dispatch,
                 initVars, userActed>>

\* The animation frame initMap asked for: the map is built (the page has a
\* #journey-map container).
MapFrame ==
  /\ Idle
  /\ mapFrames > 0
  /\ mapFrames' = mapFrames - 1
  /\ map' = "map"
  /\ UNCHANGED <<paramVars, compVars, flowVars, progVars, closures, storyTimers, domVars,
                 mapInitialised, mapInitRuns, mapStepEntries, dispatch, initVars,
                 userActed>>

(***************************************************************************)
(* The progress sequencer: its timers and animation frames.                *)
(***************************************************************************)
\* A loop that is left after its first step.
NextStepLeavesEarly ==
  /\ progPc' = "sleepEnd"
  /\ UNCHANGED <<progI, items, anim>>

\* A loop that is left at the first step that fails.
NextStepStopsAtFailure ==
  IF progI < Len(stepList) /\ ~HasFailAt(Step)
    THEN /\ progI' = progI + 1
         /\ items' = Append(items, NewItem)
         /\ progPc' = "sleep300"
         /\ anim' = NoAnim
    ELSE /\ progPc' = "sleepEnd"
         /\ UNCHANGED <<progI, items, anim>>

\* The end of one step's sequence: the loop goes on with the next step, or
\* leaves for the last pause.
NextStep ==
  IF progI < Len(stepList)
    THEN /\ progI' = progI + 1
         /\ items' = Append(items, NewItem)
         /\ progPc' = "sleep300"
         /\ anim' = NoAnim
    ELSE /\ progPc' = "sleepEnd"
         /\ UNCHANGED <<progI, items, anim>>

\* The pending sleep() of runProgress resolves and runProgress runs to its
\* next await; after the last one it returns and startFlow resumes.
ProgressTimer ==
  /\ Idle
  /\ progPc \in {"sleep300", "sleep200", "sleep800", "sleep600", "sleep1200",
                 "sleep400", "sleepEnd"}
  /\ CASE progPc = "sleep300" ->
            /\ items' = SetItem([Item EXCEPT !.visible = TRUE])
            /\ progPc' = "sleep200"
            /\ UNCHANGED <<progI, anim>>
       [] progPc = "sleep200" ->
            /\ IF HasFailAt(Step)
                 THEN /\ anim' = AnimateFill(Item, FailAt,
                                             (Step.duration * FailAt) \div 100)
                      /\ progPc' = "fillFail"
                 ELSE /\ anim' = AnimateFill(Item, 100, Step.duration)
                      /\ progPc' = "fillDone"
            /\ UNCHANGED <<progI, items>>
       [] progPc = "sleep800" ->
            /\ anim' = AnimateFill(Item, StutterTarget, 400)
            /\ progPc' = "fillStutter"
            /\ UNCHANGED <<progI, items>>
       [] progPc = "sleep600" ->
            /\ anim' = AnimateFill(Item, DropTarget, 200)
            /\ progPc' = "fillDrop"
            /\ UNCHANGED <<progI, items>>
       [] progPc \in {"sleep1200", "sleep400"} -> NextStep
       [] progPc = "sleepEnd" ->
            /\ progPc' = "resolved"
            /\ UNCHANGED <<progI, items, anim>>
  /\ IF progPc = "sleepEnd"
       THEN StartFlowResume
       ELSE UNCHANGED <<active, errorClasses, errorTimers, flow>>
  /\ UNCHANGED <<paramVars, compVars, loaded, storyVars, dispatch, initVars, userActed>>

\* frame(now) of the running animateFill, q quarters of the duration after
\* its start: the width is written; before the duration has elapsed another
\* frame is asked for, otherwise the promise resolves and runProgress runs to
\* its next await.
ProgressFrame ==
  /\ Idle
  /\ anim.on
  /\ \E q \in anim.q .. 4 :
       LET w == SetWidth(Item, FrameWidth8(anim, q))
           it == [w EXCEPT !.reached = Append(@, w.width8)]
       IN IF q < 4
            THEN /\ items' = SetItem(w)
                 /\ anim' = [anim EXCEPT !.q = q]
                 /\ UNCHANGED <<progPc, progI>>
            ELSE /\ anim' = NoAnim
                 /\ UNCHANGED progI
                 /\ CASE progPc = "fillFail" ->
                           /\ items' = SetItem([it EXCEPT !.status = <<FailAt, "%">>])
                           /\ progPc' = "sleep800"
                      [] progPc = "fillStutter" ->
                           /\ items' = SetItem([it EXCEPT !.status = <<StutterTarget, "%">>])
                           /\ progPc' = "sleep600"
                      [] progPc = "fillDrop" ->
                           /\ items' = SetItem([it EXCEPT !.status = <<"FAILED">>,
                                                          !.classes = @ \cup {"fail"},
                                                          !.errorStyle = TRUE])
                           /\ progPc' = "sleep1200"
                      [] progPc = "fillDone" ->
                           /\ items' = SetItem([it EXCEPT !.status = <<"tick">>,
                                                          !.classes = @ \cup {"done"}])
                           /\ progPc' = "sleep400"
  /\ UNCHANGED <<paramVars, compVars, flowVars, storyVars, dispatch, initVars, userActed>>

(***************************************************************************)
(* The model viewer (model-viewer.js): the search for a model file, the    *)
(* render loop and the teardown.  The scene's lights are left out: only    *)
(* the objects tryLoadModel's outcomes add are kept.                       *)
(***************************************************************************)
\* possiblePaths.length
NumPaths == 4

\* What a HEAD request of a candidate path can come to: a response that is
\* ok, one that is not, or a rejection.
ProbeOutcomes == {"ok", "notOk", "throws"}

\* What GLTFLoader.load can come to: its onLoad or its onError callback.
LoadOutcomes == {"success", "error"}

\* findAndLoad up to its first await: the first candidate is being probed.
\* threw records that some probe of the call was rejected.
NewLoad == [pc |-> "probe", path |-> 1, threw |-> FALSE]

\* An error callback that shows nothing.
LoadErrorNoFallback(objs) == objs

\* The error callback of loadModel: showPlaceholderCube().
LoadError(objs) == Append(objs, "placeholder")

\* initModelViewer(): a new scene, the search for a model started, and a
\* render loop started by the call of animate(), which asks for the loop's
\* first animation frame and keeps the request in animationId.
CallInitModelViewer ==
  /\ Len(loads) < MaxViewerInits
  /\ loads' = Append(loads, NewLoad)
  /\ sceneObjects' = <<>>
  /\ running' = running \cup {Len(loads) + 1}
  /\ animationId' = Len(loads) + 1
  /\ UNCHANGED <<paramVars, flowVars, progVars, storyVars, dispatch, initVars,
                 userActed, videoVars>>

\* The HEAD request of findAndLoad number k settles: a response that is ok
\* starts loadModel and ends the search; otherwise the next candidate is
\* probed, and after the last one the placeholder is shown.
ProbeSettles ==
  /\ \E k \in 1 .. Len(loads), outcome \in ProbeOutcomes :
       /\ loads[k].pc = "probe"
       /\ LET l == [loads[k] EXCEPT !.threw = @ \/ outcome = "throws"]
          IN IF outcome = "ok"
               THEN /\ loads' = [loads EXCEPT ![k] = [l EXCEPT !.pc = "loading"]]
                    /\ UNCHANGED sceneObjects
               ELSE IF l.path < NumPaths
                      THEN /\ loads' = [loads EXCEPT
                                          ![k] = [l EXCEPT !.path = @ + 1]]
                           /\ UNCHANGED sceneObjects
                      ELSE /\ loads' = [loads EXCEPT ![k] = [l EXCEPT !.pc = "none"]]
                           /\ sceneObjects' = Append(sceneObjects, "placeholder")
  /\ UNCHANGED <<paramVars, flowVars, progVars, storyVars, dispatch, initVars,
                 userActed, running, animationId, videoVars>>

\* The load of the file chosen by findAndLoad number k ends: onLoad adds the
\* model to the scene, onError the placeholder.
LoadSettles ==
  /\ \E k \in 1 .. Len(loads), outcome \in LoadOutcomes :
       /\ loads[k].pc = "loading"
       /\ IF outcome = "success"
            THEN /\ loads' = [loads EXCEPT ![k].pc = "loaded"]
                 /\ sceneObjects' = Append(sceneObjects, "model")
            ELSE /\ loads' = [loads EXCEPT ![k].pc = "failed"]
                 /\ sceneObjects' = LoadError(sceneObjects)
  /\ UNCHANGED <<paramVars, flowVars, progVars, storyVars, dispatch, initVars,
                 userActed, running, animationId, videoVars>>

\* The animation frame of render loop k: animate() asks for the loop's next
\* frame, keeps that request in animationId and renders.
RenderFrame ==
  /\ \E k \in running : animationId' = k
  /\ UNCHANGED <<paramVars, flowVars, progVars, storyVars, dispatch, initVars,
                 userActed, loads, sceneObjects, running, videoVars>>

\* disposeModelViewer(): the request animationId holds is cancelled.
CallDisposeModelViewer ==
  /\ running' = IF animationId # 0 THEN running \ {animationId} ELSE running
  /\ UNCHANGED <<paramVars, flowVars, progVars, storyVars, dispatch, initVars,
                 userActed, loads, sceneObjects, animationId, videoVars>>

(***************************************************************************)
(* The video player (initVideo of video.js).                               *)
(***************************************************************************)
\* The fullscreen method the video element has: enterFullscreenAndPlay takes
\* the first of the three that is there.
VideoApis ==
  {"requestFullscreen", "webkitRequestFullscreen", "webkitEnterFullScreen",
   "none"}

\* The fullscreen method the container has.
ContainerApis == {"requestFullscreen", "webkitRequestFullscreen", "none"}

\* What the page can offer.  read: initVideo has looked at the page.
VideoEnvs ==
  [read : {TRUE}, hasSource : BOOLEAN, videoApi : VideoApis,
   containerApi : ContainerApis]

\* The page before initVideo has looked at it.
NoVideoEnv ==
  [read |-> FALSE, hasSource |-> FALSE, videoApi |-> "none",
   containerApi |-> "none"]

\* What a fullscreen request comes to: the method returns or its promise
\* resolves, or the method throws or its promise rejects.
FsOutcomes == {"resolves", "rejects"}

\* The elements before initVideo: no inline display ("css": the stylesheet
\* decides), no `show` class, no click listener, video.play() never called.
NoVideoDom ==
  [playBtn |-> "css", placeholder |-> "css", continueShown |-> FALSE,
   listeners |-> 0, plays |-> 0]

\* A call of enterFullscreenAndPlay: where it stands, and how many of its
\* fullscreen requests have failed.
FsCall(pc, rejections) == [pc |-> pc, rejections |-> rejections]

\* The catch block of the first try: the request on the container, if the
\* container has a method for it.
ContainerAttempt(env, rejections) ==
  IF env.containerApi # "none"
    THEN FsCall("awaitContainerFs", rejections)
    ELSE FsCall("done", rejections)

\* enterFullscreenAndPlay up to its first await.  The two promise-returning
\* methods are awaited; webkitEnterFullScreen is a plain call that returns
\* or throws; with no method the try block does nothing.
StartFsCall(env, outcome) ==
  IF env.videoApi \in {"requestFullscreen", "webkitRequestFullscreen"}
    THEN FsCall("awaitVideoFs", 0)
    ELSE IF env.videoApi = "webkitEnterFullScreen" /\ outcome = "rejects"
           THEN ContainerAttempt(env, 1)
           ELSE FsCall("done", 0)

\* The request on the video element settles.
AfterVideoFs(env, call, outcome) ==
  IF outcome = "resolves"
    THEN FsCall("done", call.rejections)
    ELSE ContainerAttempt(env, call.rejections + 1)

\* A request on the container whose rejection nothing catches.
AfterContainerFsUncaught(call, outcome) ==
  IF outcome = "resolves"
    THEN FsCall("done", call.rejections)
    ELSE FsCall("threw", call.rejections + 1)

\* The request on the container settles: a rejection is caught and logged.
AfterContainerFs(call, outcome) ==
  IF outcome = "resolves"
    THEN FsCall("done", call.rejections)
    ELSE FsCall("done", call.rejections + 1)

\* The end of enterFullscreenAndPlay for n calls at once: video.play() and
\* the play button hidden.
Played(dom, n) ==
  IF n = 0 THEN dom
  ELSE [dom EXCEPT !.plays = @ + n, !.playBtn = "none"]

\* initVideo(): without a source the placeholder and the continue button
\* are shown and nothing else happens; with one the play button is shown
\* and gets one more click listener.
CallInitVideo ==
  /\ videoDom.listeners < MaxVideoInits
  /\ \E env \in VideoEnvs :
       /\ videoEnv.read => env = videoEnv
       /\ videoEnv' = env
       /\ videoDom' =
            IF ~env.hasSource
              THEN [videoDom EXCEPT !.playBtn = "none", !.placeholder = "flex",
                                    !.continueShown = TRUE]
              ELSE [videoDom EXCEPT !.placeholder = "none", !.playBtn = "flex",
                                    !.listeners = @ + 1]
  /\ videoInited' = TRUE
  /\ UNCHANGED <<paramVars, flowVars, progVars, storyVars, dispatch, modelInited,
                 userActed, viewerVars, fsCalls>>

\* A click on the play button while it is shown: every listener initVideo
\* has added runs enterFullscreenAndPlay up to its first await or its end.
ClickPlay ==
  /\ videoDom.playBtn = "flex"
  /\ videoDom.listeners > 0
  /\ Len(fsCalls) + videoDom.listeners <= MaxFsCalls
  /\ \E outcomes \in [1 .. videoDom.listeners -> FsOutcomes] :
       LET new == [i \in 1 .. videoDom.listeners |->
                     StartFsCall(videoEnv, outcomes[i])]
           ended == {i \in 1 .. videoDom.listeners : new[i].pc = "done"}
       IN /\ fsCalls' = fsCalls \o new
          /\ videoDom' = Played(videoDom, Cardinality(ended))
  /\ UNCHANGED <<paramVars, flowVars, progVars, storyVars, dispatch, initVars,
                 userActed, viewerVars, videoEnv>>

\* The fullscreen request call k awaits settles and the call goes on.
FullscreenSettles ==
  /\ \E k \in 1 .. Len(fsCalls), outcome \in FsOutcomes :
       /\ fsCalls[k].pc \in {"awaitVideoFs", "awaitContainerFs"}
       /\ LET call == IF fsCalls[k].pc = "awaitVideoFs"
                        THEN AfterVideoFs(videoEnv, fsCalls[k], outcome)
                        ELSE AfterContainerFs(fsCalls[k], outcome)
          IN /\ fsCalls' = [fsCalls EXCEPT ![k] = call]
             /\ videoDom' = Played(videoDom, IF call.pc = "done" THEN 1 ELSE 0)
  /\ UNCHANGED <<paramVars, flowVars, progVars, storyVars, dispatch, initVars,
                 userActed, viewerVars, videoEnv>>

\* The video's `ended` event: the continue button is shown.
VideoEnded ==
  /\ videoDom.plays > 0
  /\ videoDom' = [videoDom EXCEPT !.continueShown = TRUE]
  /\ UNCHANGED <<paramVars, flowVars, progVars, storyVars, dispatch, initVars,
                 userActed, viewerVars, videoEnv, fsCalls>>

\* A fullscreenchange event that leaves no element in fullscreen after some
\* of the video has played (currentTime > 0): the continue button is shown.
FullscreenLeft ==
  /\ videoDom.listeners > 0
  /\ videoDom.plays > 0
  /\ videoDom' = [videoDom EXCEPT !.continueShown = TRUE]
  /\ UNCHANGED <<paramVars, flowVars, progVars, storyVars, dispatch, initVars,
                 userActed, viewerVars, videoEnv, fsCalls>>

\* No component has been initialised.
ComponentsIdle ==
  /\ loads = <<>>
  /\ sceneObjects = <<>>
  /\ running = {}
  /\ animationId = 0
  /\ videoEnv = NoVideoEnv
  /\ videoDom = NoVideoDom
  /\ fsCalls = <<>>

(***************************************************************************)
(* The specification.                                                      *)
(***************************************************************************)
Init ==
  /\ controller \in {"app", "video"}
  /\ skipTo \in ScreenParams
  \* the step parameter is read by jumpTo('suitcase') alone
  /\ suitcaseStep \in IF skipTo = "suitcase" THEN StepParams ELSE {NullStep}
  /\ loaded = FALSE
  /\ active \in SUBSET Screens
  /\ errorClasses = {}
  /\ errorTimers = {}
  /\ flow = "idle"
  /\ progPc = "idle"
  /\ progI = 0
  /\ items = <<>>
  /\ anim = NoAnim
  /\ stepList = STEPS
  /\ closures = <<>>
  /\ storyTimers = <<>>
  /\ stepClasses = [i \in Steps |-> {}]
  /\ dotActive = [i \in Steps |-> FALSE]
  /\ tapHint = ""
  /\ mapInitialised = FALSE
  /\ mapInitRuns = 0
  /\ mapStepEntries = 0
  /\ mapFrames = 0
  /\ map = "null"
  /\ dispatch = <<>>
  /\ videoInited = FALSE
  /\ modelInited = FALSE
  /\ userActed = FALSE
  /\ ComponentsIdle

Next ==
  \/ Load
  \/ ClickNextSteps
  \/ ClickShowGift
  \/ ClickShowVideo
  \/ ClickVideoContinue
  \/ FlashTimer
  \/ ShakeTimer
  \/ Tap
  \/ RunListener
  \/ StoryTimer
  \/ MapFrame
  \/ ProgressTimer
  \/ ProgressFrame

Spec == Init /\ [][Next]_vars

(***************************************************************************)
(* The progress sequencer over step lists other than STEPS: the default    *)
(* flow of part_000 with every list of at most MaxSteps steps, each with   *)
(* one of two durations and with no failAt or one of the values of         *)
(* FailAts.  The browser fires every timer that is due and keeps           *)
(* delivering animation frames.                                            *)
(***************************************************************************)
\* Durations in ms (multiples of 100, so that duration * failAt / 100 is an
\* integer).
Durations == {100, 3000}

\* failAt values: none, 0, the values at which failAt - 2 is negative or 0,
\* the value of STEPS, and 100.
FailAts == {NoFailAt, <<0>>, <<1>>, <<2>>, <<87>>, <<100>>}

StepRecords == [duration : Durations, failAt : FailAts]

StepLists == UNION {[1 .. n -> StepRecords] : n \in 0 .. MaxSteps}

ProgressInit ==
  /\ controller = "app"
  /\ skipTo = NullScreen
  /\ suitcaseStep = NullStep
  /\ stepList \in StepLists
  /\ loaded = FALSE
  /\ active = {}
  /\ errorClasses = {}
  /\ errorTimers = {}
  /\ flow = "idle"
  /\ progPc = "idle"
  /\ progI = 0
  /\ items = <<>>
  /\ anim = NoAnim
  /\ closures = <<>>
  /\ storyTimers = <<>>
  /\ stepClasses = [i \in Steps |-> {}]
  /\ dotActive = [i \in Steps |-> FALSE]
  /\ tapHint = ""
  /\ mapInitialised = FALSE
  /\ mapInitRuns = 0
  /\ mapStepEntries = 0
  /\ mapFrames = 0
  /\ map = "null"
  /\ dispatch = <<>>
  /\ videoInited = FALSE
  /\ modelInited = FALSE
  /\ userActed = FALSE
  /\ ComponentsIdle

ProgressNext ==
  \/ Load
  \/ ProgressTimer
  \/ ProgressFrame
  \/ ClickShowGift

ProgressSpec ==
  /\ ProgressInit
  /\ [][ProgressNext]_vars
  /\ WF_vars(ProgressTimer)
  /\ WF_vars(ProgressFrame)

(***************************************************************************)
(* The default flow of either controller under fair scheduling: the page   *)
(* is loaded without a deep-link target, the user clicks the navigation    *)
(* buttons at any time, and a timer that is due fires.  The taps of the    *)
(* story, which touch neither the error screen nor the timers of           *)
(* startFlow, are left to Spec.                                            *)
(***************************************************************************)
DefaultFlowInit == Init /\ skipTo \notin Screens \ {"progress"}

DefaultFlowNext ==
  \/ Load
  \/ ClickNextSteps
  \/ ClickShowGift
  \/ ClickShowVideo
  \/ ClickVideoContinue
  \/ ProgressTimer
  \/ ProgressFrame
  \/ FlashTimer
  \/ ShakeTimer

DefaultFlowSpec ==
  /\ DefaultFlowInit
  /\ [][DefaultFlowNext]_vars
  /\ WF_vars(FlashTimer)
  /\ WF_vars(ShakeTimer)

(***************************************************************************)
(* The story of a page loaded with screen=suitcase, with a user who keeps  *)
(* tapping: every click is delivered to its listener, the 580 ms timer     *)
(* fires however the taps fall, and another tap always comes.              *)
(***************************************************************************)
StoryInit == Init /\ skipTo = "suitcase" /\ active = {}

StoryNext ==
  \/ Load
  \/ Tap
  \/ RunListener
  \/ StoryTimer
  \/ MapFrame

StorySpec ==
  /\ StoryInit
  /\ [][StoryNext]_vars
  /\ WF_vars(RunListener)
  /\ SF_vars(StoryTimer)
  /\ SF_vars(Tap)

(***************************************************************************)
(* The model viewer by itself: initModelViewer is called up to             *)
(* MaxViewerInits times (every click on the button that leads to the model *)
(* calls it), the requests and loads settle in any order and with any      *)
(* outcome, and disposeModelViewer is called at any time.                  *)
(***************************************************************************)
ViewerInit == Init /\ controller = "app" /\ skipTo = NullScreen /\ active = {}

ViewerNext ==
  \/ CallInitModelViewer
  \/ ProbeSettles
  \/ LoadSettles
  \/ RenderFrame
  \/ CallDisposeModelViewer

ViewerSpec == ViewerInit /\ [][ViewerNext]_vars

(***************************************************************************)
(* The video player by itself: initVideo is called up to MaxVideoInits     *)
(* times on a page with or without a video source and with any of the      *)
(* fullscreen methods, the play button is clicked while it is shown, and   *)
(* every fullscreen request settles, one way or the other.                 *)
(***************************************************************************)
VideoInit == Init /\ controller = "video" /\ skipTo = NullScreen /\ active = {}

VideoNext ==
  \/ CallInitVideo
  \/ ClickPlay
  \/ FullscreenSettles
  \/ VideoEnded
  \/ FullscreenLeft

VideoSpec == VideoInit /\ [][VideoNext]_vars /\ WF_vars(FullscreenSettles)

(***************************************************************************)
(* Properties.                                                             *)
(***************************************************************************)
\* The step a well-formed step parameter asks for: the in-range values of
\* StepParams and the index each one names (absent asks for step 0).
StepAsked ==
  {<<NullStep, 0>>, <<(<<"0">>), 0>>, <<(<<"1">>), 1>>, <<(<<"2">>), 2>>,
   <<(<<"3">>), 3>>, <<(<<"2", "p", "x">>), 2>>, <<(<<" ", "1">>), 1>>}

\* The classes of the slides when step k is shown: k active, the earlier
\* slides exited, the later ones neither.
SlidesAt(k) ==
  [i \in Steps |-> IF i = k THEN {"active"} ELSE IF i < k THEN {"exited"} ELSE {}]

\* The place of each screen in the order of the experience.
Rank(screen) ==
  CASE screen = "progress" -> 0
    [] screen = "error" -> 1
    [] screen = "suitcase" -> 2
    [] screen = "video" -> 3
    [] screen = "model" -> 4

\* The screen parameter is absent or names no screen of the controller.
Unrecognized == skipTo = NullScreen \/ skipTo \notin Screens

\* The screen parameter names a deep-link target of the controller.
DeepLinked == skipTo \in Screens \ {"progress"}

\* C1: a click listener that runs while its closure's transition is in
\* flight (a tap of a burst after the first, before the 580 ms timer has
\* fired) leaves that closure's step index unchanged.
C1_TapInFlightKeepsIndex ==
  [][(dispatch # <<>> /\ closures[Head(dispatch)].transitioning)
       => closures'[Head(dispatch)].currentStep
            = closures[Head(dispatch)].currentStep]_vars

\* C2: once init has run, exactly one screen carries 'active'.
C2_ExactlyOneActive == loaded => Cardinality(active) = 1

\* C2 witness: the default flow has shown the error screen, its timers have
\* fired and a button has led on to the suitcase screen.
C2_Witness ==
  /\ loaded /\ flow = "done" /\ errorTimers = {} /\ userActed
  /\ active = {"suitcase"}

\* C3: the step index of the story is an integer of 0 .. totalSteps - 1.
C3_StepIndexInRange ==
  \A c \in 1 .. Len(closures) :
    /\ ~closures[c].currentStep.nan
    /\ closures[c].currentStep.v \in Steps

\* C4: the body of initMap has run exactly once if the map step has been
\* entered, however often, and not at all otherwise.
C4_MapInitOnce == mapInitRuns = IF mapStepEntries > 0 THEN 1 ELSE 0

\* C4 witness: the map step has been entered twice, by two initSuitcase calls.
C4_Witness == mapStepEntries >= 2 /\ Len(closures) = 2 /\ mapInitRuns = 1

\* C5: with the screen parameter absent or unrecognized, init shows the
\* progress screen and starts the progress sequencer; the error screen is
\* active only once the sequencer's promise has resolved, and becomes active
\* in the step in which it resolves.
C5_DefaultFlow ==
  [][Unrecognized =>
       /\ (~loaded /\ loaded') =>
            (active' = {"progress"} /\ progPc' = "sleep300" /\ flow' = "awaiting")
       /\ (loaded' /\ "error" \in active') => progPc' = "resolved"
       /\ (progPc # "resolved" /\ progPc' = "resolved") =>
            (active' = {"error"} /\ flow' = "done")]_vars

\* C5 witness: the default flow of an unrecognized parameter has reached the
\* error screen with its flash.
C5_Witness ==
  /\ loaded /\ Unrecognized /\ skipTo # NullScreen
  /\ progPc = "resolved" /\ active = {"error"} /\ "flash" \in errorClasses

C7_DeepLinkStep ==
  \A p \in StepAsked :
    (loaded /\ ~userActed /\ skipTo = "suitcase" /\ suitcaseStep = p[1]) =>
      /\ active = {"suitcase"}
      /\ Len(closures) = 1
      /\ closures[1].currentStep = Num(p[2])
      /\ stepClasses = SlidesAt(p[2])
      /\ dotActive = [i \in Steps |-> i = p[2]]
      /\ mapInitialised = (p[2] = MapStepIndex)
      /\ mapInitRuns = IF p[2] = MapStepIndex THEN 1 ELSE 0
      /\ flow = "idle" /\ progPc = "idle"

\* C7 witness: screen=suitcase&step=2, no input, and the map has been built.
C7_Witness ==
  /\ loaded /\ ~userActed /\ skipTo = "suitcase" /\ suitcaseStep = <<"2">>
  /\ map = "map"

\* The step index k that this step's initSuitcase call is given: the one the
\* step parameter asks for when init makes the call, 0 when the button does.
InitSuitcaseCalledWith(k) ==
  /\ Len(closures') = Len(closures) + 1
  /\ IF loaded
       THEN k = 0
       ELSE \E p \in StepAsked : suitcaseStep = p[1] /\ k = p[2]

\* C8: initSuitcase(k), k a step index, leaves slide k active, the earlier
\* slides exited and the later ones neither, and starts no transition: the
\* new closure's flag is false and no timer is added.
C8_InitShowsStartStep ==
  [][\A k \in Steps :
       InitSuitcaseCalledWith(k) =>
         /\ closures'[Len(closures')] = [currentStep |-> Num(k), transitioning |-> FALSE]
         /\ stepClasses' = SlidesAt(k)
         /\ dotActive' = [i \in Steps |-> i = k]
         /\ storyTimers' = storyTimers
         /\ \A c \in 1 .. Len(closures) : closures'[c] = closures[c]]_vars

\* C8 witness: a second initSuitcase has run while the first closure's
\* transition was in flight.
C8_Witness ==
  /\ Len(closures) = 2
  /\ closures[1].transitioning /\ ~closures[2].transitioning
  /\ closures[2].currentStep = Num(0)
  /\ stepClasses = SlidesAt(0)

\* C9: a click listener that runs while its step index is the last one
\* changes nothing of the story: no step index, no transitioning flag, no
\* timer, no slide, dot or hint, nothing of the map.
C9_TapAtLastStepIsNoop ==
  [][(dispatch # <<>> /\ closures[Head(dispatch)].currentStep = LastStep)
       => UNCHANGED <<storyVars, flowVars>>]_vars

\* C9 witness: the first listener of a click has run with its closure at rest
\* on the last step (no transition in flight), the second has yet to run.
C9_Witness ==
  /\ Len(closures) = 2 /\ dispatch = <<2>>
  /\ closures[1].currentStep = LastStep /\ ~closures[1].transitioning
  /\ storyTimers = <<>>

\* C10: the active screen never changes to one that comes earlier in the
\* order progress, error, suitcase, video, model (so nothing follows model).
C10_OneDirectional ==
  [][loaded => \A a \in active, b \in active' : Rank(a) <= Rank(b)]_vars

\* Step i of the list has a failure point (failAt is present and not 0).
Failing(i) == stepList[i].failAt \notin {NoFailAt, <<0>>}

\* Item i shows a finished step: without a failure point one fill to 100 and
\* the 'done' mark; with failure point p the fills to p, p + 1 and p - 2,
\* the status FAILED with its 'fail' class and the error style.
Finished(i) ==
  IF Failing(i)
    THEN LET p == stepList[i].failAt[1]
         IN /\ items[i].reached = <<8 * p, 8 * (p + 1), 8 * (p - 2)>>
            /\ items[i].status = <<"FAILED">>
            /\ "fail" \in items[i].classes /\ items[i].errorStyle
    ELSE /\ items[i].reached = <<800>>
         /\ items[i].status = <<"tick">>
         /\ "done" \in items[i].classes

\* C11: runProgress resolves from its last pause alone, with an item for
\* every step and every item finished; that last pause starts only when the
\* pause that ends the last step's sequence (1200 ms after FAILED, 400 ms
\* after done) has elapsed.
C11_ResolvesAfterAllSteps ==
  [][/\ (progPc # "resolved" /\ progPc' = "resolved") =>
          /\ progPc = "sleepEnd"
          /\ Len(items) = Len(stepList)
          /\ \A i \in 1 .. Len(stepList) : Finished(i)
     /\ (loaded /\ progPc # "sleepEnd" /\ progPc' = "sleepEnd") =>
          /\ progI = Len(stepList)
          /\ progPc = IF Failing(progI) THEN "sleep1200" ELSE "sleep400"
          /\ Finished(progI)]_vars

\* C11 witness: the promise has resolved and the last item reads FAILED.
C11_Witness ==
  /\ progPc = "resolved" /\ Len(items) = Len(STEPS)
  /\ items[Len(STEPS)].status = <<"FAILED">>
  /\ items[Len(STEPS)].width8 = 8 * (87 - 2)

\* Item i has been through its whole sequence: three fills and FAILED for a
\* step with a failure point, one fill and the 'done' mark otherwise.
Ended(i) ==
  IF Failing(i)
    THEN Len(items[i].reached) = 3 /\ items[i].status = <<"FAILED">>
    ELSE Len(items[i].reached) = 1 /\ "done" \in items[i].classes

\* C12: an item is appended only when the pause that ends the sequence of
\* the step before it has elapsed (1200 ms after FAILED, 400 ms after
\* done); only the newest item ever changes, and a fill animates only on the
\* newest item, all earlier ones having ended; the failure pause of a step
\* that is not the last is followed by the next step's item.
C12_StrictlySequential ==
  [][/\ (items # <<>> /\ Len(items') > Len(items)) =>
          /\ Len(items') = Len(items) + 1
          /\ progPc = IF Failing(progI) THEN "sleep1200" ELSE "sleep400"
          /\ ~anim.on /\ ~anim'.on
          /\ \A i \in 1 .. Len(items) : Ended(i)
     /\ \A i \in 1 .. Len(items) :
          (Len(items') >= i /\ items'[i] # items[i]) => i = Len(items)
     /\ anim.on =>
          /\ progI = Len(items)
          /\ \A i \in 1 .. Len(items) - 1 : Ended(i)
     /\ (progPc = "sleep1200" /\ progPc' # progPc /\ progI < Len(stepList)) =>
          /\ progPc' = "sleep300"
          /\ items' = Append(items, NewItem)]_vars

\* C12 witness: the first of two steps has failed and the second one's fill
\* is animating.
C12_Witness ==
  /\ Len(stepList) = 2 /\ Failing(1) /\ Len(items) = 2
  /\ items[1].status = <<"FAILED">>
  /\ anim.on /\ anim.q > 0 /\ items[2].width8 > 0

\* The items whose step's sequence is over: every item but the newest, and
\* the newest too once the loop has been left.
Over(i) == i < Len(items) \/ progPc \in {"sleepEnd", "resolved"}

\* s is an initial part of t.
IsPrefix(s, t) == Len(s) <= Len(t) /\ s = SubSeq(t, 1, Len(s))

\* C15 as stated: a step whose failAt is p, whatever p is, has its fill
\* resolve at p, p + 1 and p - 2 in this order and ends FAILED with the
\* error style, never done; a step without failAt has one fill, to 100, and
\* ends done, never FAILED.
C15_AnyFailurePoint ==
  \A i \in 1 .. Len(items) :
    IF stepList[i].failAt # NoFailAt
      THEN LET p == stepList[i].failAt[1]
           IN /\ IsPrefix(items[i].reached, <<8 * p, 8 * (p + 1), 8 * (p - 2)>>)
              /\ "done" \notin items[i].classes
              /\ Over(i) => Finished(i) /\ Failing(i)
      ELSE /\ IsPrefix(items[i].reached, <<800>>)
           /\ "fail" \notin items[i].classes /\ ~items[i].errorStyle
           /\ Over(i) => Finished(i)

\* C15 as amended: the same for every failAt from 2 on; a failAt of 0 is
\* taken as no failure point (the step ends at 100, done), and with a failAt
\* of 1 the fill resolves at 1 and 2, its last fill stops at a width of 0 to
\* 2 (the width -1% is never set) and the step ends FAILED.
C15_FailurePointFromTwo ==
  \A i \in 1 .. Len(items) :
    IF Failing(i)
      THEN LET p == stepList[i].failAt[1]
           IN /\ "done" \notin items[i].classes
              /\ IF p >= 2
                   THEN /\ IsPrefix(items[i].reached,
                                    <<8 * p, 8 * (p + 1), 8 * (p - 2)>>)
                        /\ Over(i) => Finished(i)
                   ELSE /\ Len(items[i].reached) <= 3
                        /\ \A k \in 1 .. Len(items[i].reached) :
                             k <= 2 => items[i].reached[k] = 8 * (p + k - 1)
                        /\ items[i].width8 \in 0 .. 8 * (p + 1)
                        /\ Over(i) => Ended(i) /\ items[i].errorStyle
      ELSE /\ IsPrefix(items[i].reached, <<800>>)
           /\ "fail" \notin items[i].classes /\ ~items[i].errorStyle
           /\ Over(i) => Finished(i)

\* C15 witness: a first step failing at 2 has had its fills resolve at 2, 3
\* and 0, and the step after it, without failAt, is done at 100.
C15_Witness ==
  /\ Len(stepList) = 2 /\ stepList[1].failAt = <<2>> /\ stepList[2].failAt = NoFailAt
  /\ progPc = "resolved"
  /\ items[1].reached = <<16, 24, 0>> /\ items[1].status = <<"FAILED">>
  /\ items[2].width8 = 800 /\ "done" \in items[2].classes

\* A navigation button has been clicked in this step: it is a click, no
\* timer or frame has fired, no story listener is to run, and an initializer
\* has been called.
NavClicked ==
  /\ userActed'
  /\ dispatch = <<>> /\ dispatch' = <<>>
  /\ UNCHANGED <<progVars, errorClasses, errorTimers, storyTimers, mapFrames>>
  /\ \/ Len(closures') = Len(closures) + 1
     \/ videoInited'
     \/ modelInited'

\* C13: the active screen is the same before and after a story tap and
\* each of its listeners, a firing of the story's transition timer, the
\* animation frame of the map, every timer and frame of the progress
\* sequencer short of the one that resolves it, and the flash and shake
\* timers; and once the default flow has shown the error screen, the active
\* screen changes from error in no step but the click of a navigation
\* button.
C13_OnlyControllerChangesActive ==
  [][/\ (dispatch # <<>> \/ dispatch' # <<>>) => active' = active
     /\ Len(storyTimers') < Len(storyTimers) => active' = active
     /\ (loaded /\ mapInitRuns' # mapInitRuns) => active' = active
     /\ mapFrames' < mapFrames => active' = active
     /\ (progVars' # progVars /\ progPc \notin {"idle", "sleepEnd"})
          => active' = active
     /\ errorTimers \ errorTimers' # {} => active' = active
     /\ (flow = "done" /\ active = {"error"} /\ active' # active)
          => NavClicked]_vars

\* C13 witness: the default flow has shown the error screen, both timers
\* have fired, nothing has been clicked and the error screen is still shown.
C13_Witness ==
  /\ flow = "done" /\ ~userActed
  /\ errorTimers = {} /\ errorClasses = {}
  /\ active = {"error"}

\* C14: the click of the error screen's button activates suitcase alone and
\* calls initSuitcase; the click of the story's button (#btn-show-gift in
\* part_000, #btn-show-video in the other revision) activates video alone
\* and calls initVideo; the click of the video's continue button activates
\* model alone and calls initModelViewer.
C14_ButtonsGoToSuccessor ==
  [][/\ ClickNextSteps =>
          /\ active' = {"suitcase"}
          /\ Len(closures') = Len(closures) + 1
     /\ (ClickShowGift \/ ClickShowVideo) =>
          /\ active' = {"video"}
          /\ videoInited'
     /\ ClickVideoContinue =>
          /\ active' = {"model"}
          /\ modelInited']_vars

\* C16: at most one transition-release timer is pending, and a click
\* listener that runs while a transition is in flight (a release timer is
\* pending) changes no slide, dot or hint.
C16_OneTransitionInFlight ==
  [][/\ Len(storyTimers') <= 1
     /\ (storyTimers # <<>> /\ dispatch # <<>>) => UNCHANGED domVars]_vars

\* C17: the story has a single tap handler: at most one closure of
\* initSuitcase has a listener on the suitcase screen, and a tap has at most
\* one listener to run.
C17_SingleTapHandler == Len(closures) <= 1 /\ Len(dispatch) <= 1

\* C18: the tap hint is hidden whenever the step index is the last one
\* (stated for the sessions in which initSuitcase has run once, where there
\* is one step index).
C18_HintHiddenAtLastStep ==
  (Len(closures) = 1 /\ closures[1].currentStep = LastStep) => tapHint = "none"

\* C19: in the default flow the step that shows the error screen adds
\* 'flash' and sets the 600 ms timer; the step in which that timer fires
\* removes 'flash', adds 'shake' and sets the 500 ms timer; the step in which
\* this one fires removes 'shake'; 'shake' is added in no other step, the two
\* classes are never present together, and once the error screen has been
\* shown the state with neither class is reached and kept, whatever the user
\* clicks.
C19_FlashThenShake ==
  /\ [][/\ (flow # "done" /\ flow' = "done") =>
             /\ active' = {"error"}
             /\ errorClasses' = {"flash"} /\ errorTimers' = {"t600"}
        /\ ("t600" \in errorTimers /\ "t600" \notin errorTimers') =>
             /\ errorClasses = {"flash"}
             /\ errorClasses' = {"shake"} /\ errorTimers' = {"t500"}
        /\ ("t500" \in errorTimers /\ "t500" \notin errorTimers') =>
             /\ errorClasses = {"shake"}
             /\ errorClasses' = {} /\ errorTimers' = {}
        /\ errorClasses' # errorClasses => errorTimers' # errorTimers]_vars
  /\ [](errorClasses \in {{}, {"flash"}, {"shake"}})
  /\ [](flow # "done" => errorClasses = {})
  /\ (flow = "done" ~> [](errorClasses = {} /\ errorTimers = {}))

\* C19 witness: the user has gone on to the model while the error screen
\* was flashing, and both timers have fired since.
C19_Witness ==
  /\ flow = "done" /\ userActed /\ active = {"model"}
  /\ errorClasses = {} /\ errorTimers = {}

\* C20: once init has started runProgress, its promise resolves, whatever
\* the step list; a resolved promise stays resolved, runProgress never goes
\* back to an earlier step, and a click on a navigation button changes
\* nothing of the sequencer.
C20_RunsToCompletion ==
  /\ (loaded ~> progPc = "resolved")
  /\ [][/\ progPc = "resolved" => progPc' = "resolved"
        /\ loaded => (progI' >= progI /\ Len(items') >= Len(items))
        /\ modelInited' # modelInited => UNCHANGED progVars]_vars

\* C20 witness: the promise has resolved for a list of two failing steps,
\* after a click that showed the model while the sequence was running (the
\* error screen has replaced the model since).
C20_Witness ==
  /\ progPc = "resolved" /\ Len(stepList) = 2 /\ Failing(1) /\ Failing(2)
  /\ modelInited /\ active = {"error"}

\* The target of the running animateFill, in eighths of a percent.
Target8 == anim.start8 + anim.delta8

\* What a step does to a running animateFill whose target is a width the
\* fill can have or, with anyTarget, any target: either the call goes on
\* (the promise is not resolved, nothing is added to the record of resolved
\* fills, the elapsed time is short of the duration), or it resolves in this
\* step, once, with the fill at the target, runProgress moving on and no
\* frame left.
AnimateFillStep(anyTarget) ==
  (anim.on /\ (anyTarget \/ Target8 >= 0)) =>
    IF anim'.on
      THEN /\ progPc' = progPc
           /\ items'[progI].reached = items[progI].reached
           /\ anim'.q < 4 /\ anim'.q >= anim.q
           /\ Target8' = Target8
      ELSE /\ items'[progI].width8 = Target8
           /\ items'[progI].reached = Append(items[progI].reached, Target8)
           /\ progPc' # progPc

\* Between two animateFill calls no frame runs: the width of every fill
\* stays as it is.
NoFrameAtRest ==
  (~anim.on /\ ~anim'.on) =>
    \A i \in 1 .. Len(items) :
      Len(items') >= i => items'[i].width8 = items[i].width8

\* C21 as stated: every animateFill call resolves once, at the frame at
\* which the duration has elapsed and at no earlier one, with the fill at
\* exactly its target (the start width plus target minus start width), and
\* runs no frame afterwards.
C21_ResolvesAtTarget == [][AnimateFillStep(TRUE) /\ NoFrameAtRest]_vars

\* C21 as amended: the same for every call whose target is not negative.
C21_ResolvesAtValidTarget == [][AnimateFillStep(FALSE) /\ NoFrameAtRest]_vars

\* C21 witness: the third fill of a step failing at 87 has resolved at 85,
\* having started from the 88 the second fill resolved at.
C21_Witness ==
  /\ items # <<>> /\ progPc = "sleep1200" /\ ~anim.on
  /\ items[progI].reached = <<8 * 87, 8 * 88, 8 * 85>>
  /\ items[progI].width8 = 8 * 85

\* C25: the slides and dots agree with the step index: the slide and the dot
\* at the index are the active ones, the slides before it are exited, the
\* ones after it neither (stated for the sessions in which initSuitcase has
\* run once and the index is a number).
C25_VisualsAgreeWithIndex ==
  (Len(closures) = 1 /\ ~closures[1].currentStep.nan) =>
    /\ stepClasses = SlidesAt(closures[1].currentStep.v)
    /\ dotActive = [i \in Steps |-> i = closures[1].currentStep.v]

\* C26: with the user tapping on and the transition timer firing, a story
\* that started at a step of the page comes to show its last slide.
C26_StoryCompletes ==
  (loaded /\ ~closures[1].currentStep.nan)
    ~> ("active" \in stepClasses[totalSteps - 1])

\* The search of call k is over: a load has ended or no candidate was ok.
SearchOver(k) == loads[k].pc \in {"loaded", "failed", "none"}

\* A candidate of call k has loaded: the probe of one of the paths was ok
\* and the load of that file succeeded.
CandidateLoaded(k) == loads[k].pc = "loaded"

\* C22: with one initModelViewer call, whatever the probes and the load come
\* to, the scene never holds more than one object, holds none while the
\* search is on, and once it is over holds the model if a candidate has
\* loaded and the placeholder otherwise.
C22_OneObjectInScene ==
  Len(loads) = 1 =>
    /\ Len(sceneObjects) <= 1
    /\ ~SearchOver(1) => sceneObjects = <<>>
    /\ SearchOver(1) =>
         sceneObjects = <<IF CandidateLoaded(1) THEN "model" ELSE "placeholder">>

\* C22 witness: a probe was rejected, the probe of the third candidate was
\* ok, and the load of that file failed: the placeholder stands alone.
C22_Witness ==
  /\ Len(loads) = 1
  /\ loads[1].threw
  /\ loads[1].path = 3
  /\ loads[1].pc = "failed"
  /\ sceneObjects = <<"placeholder">>

\* C23: a call of disposeModelViewer leaves no render loop with a pending
\* animation-frame request.
C23_DisposeHaltsRendering == [][CallDisposeModelViewer => running' = {}]_vars

\* Call k of enterFullscreenAndPlay is past its fullscreen attempts.
PastFullscreen(k) ==
  fsCalls[k].pc \notin {"awaitVideoFs", "awaitContainerFs"}

\* Call k gets past its fullscreen attempts in this step.
LeavesFullscreen(k) ==
  /\ k <= Len(fsCalls')
  /\ PastFullscreen(k)'
  /\ k > Len(fsCalls) \/ ~PastFullscreen(k)

\* The calls that get past their fullscreen attempts in this step.
Leaving == {k \in 1 .. MaxFsCalls : LeavesFullscreen(k)}

\* A step in which calls get past their fullscreen attempts makes one
\* video.play() call for each of them and hides the play button.
StartsPlayback ==
  Leaving # {} =>
    /\ \A k \in Leaving : fsCalls'[k].pc = "done"
    /\ videoDom'.plays = videoDom.plays + Cardinality(Leaving)
    /\ videoDom'.playBtn = "none"

\* initVideo on a page without a video source shows the continue button,
\* and the placeholder in place of the play button.
NoSourceShowsContinue ==
  (CallInitVideo /\ ~videoEnv'.hasSource) =>
    /\ videoDom'.continueShown
    /\ videoDom'.playBtn = "none"
    /\ videoDom'.placeholder = "flex"

\* C24: every call of enterFullscreenAndPlay gets past its fullscreen
\* attempts, whatever methods are there and whatever the requests come to,
\* and then calls video.play() and hides the play button; and initVideo on
\* a page without a video source shows the continue button at once.
C24_PlaybackAlwaysStarts ==
  /\ [][StartsPlayback /\ NoSourceShowsContinue]_vars
  /\ \A k \in 1 .. MaxFsCalls :
       (Len(fsCalls) >= k) ~>
         (Len(fsCalls) >= k /\ fsCalls[k].pc = "done" /\ videoDom.plays > 0)

\* C24 witness: the request on the video element and the one on the
\* container were both rejected, and the call has played the video and
\* hidden the play button.
C24_Witness ==
  /\ Len(fsCalls) = 1
  /\ fsCalls[1] = FsCall("done", 2)
  /\ videoDom.plays = 1
  /\ videoDom.playBtn = "none"

\* C24 witness, second part: a page without a source after initVideo.
C24_NoSourceWitness ==
  /\ videoEnv.read /\ ~videoEnv.hasSource
  /\ videoDom.continueShown

====
